---- MODULE Spec2Model ----
(***************************************************************************)
(* Model of MyMongodb.py: a thin accessor over a pymongo collection.       *)
(* The accessor's methods are the actions; the pymongo calls they make are *)
(* operators that compute what the driver and the server do (unique _id,   *)
(* lazy cursors, skip-then-limit, ordered/unordered bulk insert).          *)
(***************************************************************************)
EXTENDS Integers, Sequences, FiniteSets, TLC

\* ---------------------------------------------------------------- bounds
MaxId == 2          \* distinct primary keys
MaxVal == 2         \* distinct values of the payload field
MaxLen == 2         \* longest list handed to insert
MaxList == 4        \* longest list handed to remove_duplicates on its own
MaxLimit == 2       \* largest limit_num
MaxSkip == 1        \* largest skip_num
MaxFinds == 1       \* find_data calls in one behaviour

\* ---------------------------------------------------------------- data
None == "None"

\* A document: `id` stands for the primary key _id (unique on the server),
\* `val` for an ordinary field.
Records == [id : 1..MaxId, val : 1..MaxVal]

SeqsUpTo(S, n) == UNION {[1..k -> S] : k \in 0..n}

Perms(n) == {p \in [1..n -> 1..n] : \A i, j \in 1..n : i # j => p[i] # p[j]}

Range(s) == {s[i] : i \in DOMAIN s}

IdsOf(s) == {s[i].id : i \in DOMAIN s}

Min(a, b) == IF a < b THEN a ELSE b

\* Collections the server can hold: no two documents share the primary key.
Collections ==
  {s \in SeqsUpTo(Records, MaxId) : \A i, j \in DOMAIN s : i # j => s[i].id # s[j].id}

DbNames == {"local", "test"}
CollNames == {"students", "logs"}

\* Python truthiness of an optional string argument.
Truthy(s) == s # None /\ s # ""

VARIABLES
  server,      \* database name -> names of the collections it lists
  client,      \* self.client
  db,          \* self.db
  collection,  \* self.collection
  docs,        \* documents of the collection, in natural order
  pre,         \* docs as they were when the latest call began
  op,          \* the latest call and its arguments
  calls,       \* driver calls issued by the latest call
  log,         \* log lines emitted by the latest call
  raised,      \* exception the latest call propagated, or "none"
  res,         \* list returned by remove_duplicates
  results,     \* cursor returned by find_data: << >> before the call, else <<cursor>>
  count,       \* count returned by find_data
  sorted,      \* cursor returned by sort_data for results, same shape
  consumed,    \* cursors the caller has already iterated
  yielded,     \* records the caller's latest iteration produced
  finds        \* number of find_data calls made

vars == <<server, client, db, collection, docs, pre, op, calls, log, raised,
          res, results, count, sorted, consumed, yielded, finds>>

\* ---------------------------------------------------------------- logging
\* logging.<level>(msg, *args): the line is formatted as msg % args.  When the
\* number of placeholders differs from the number of arguments the formatting
\* raises inside the handler, which reports on stderr and emits no line.
logging_emit(level, msg, placeholders, args) ==
  IF placeholders = Len(args)
  THEN <<[level |-> level, msg |-> msg, args |-> args]>>
  ELSE << >>

HasLine(l, level, msg) == \E i \in DOMAIN l : l[i].level = level /\ l[i].msg = msg

\* ---------------------------------------------------------------- __init__
MyMongodb_init(database, coll) ==
  LET l1 == logging_emit("INFO", "connected client", 2, <<"localhost", 27017>>)
  IN
  /\ op = [name |-> "idle"]
  /\ op' = [name |-> "__init__", database |-> database, collection |-> coll]
  /\ client' = "MongoClient"
  /\ IF ~Truthy(database) \/ ~Truthy(coll)
     THEN /\ log' = l1 \o logging_emit("ERROR", "no database or collection name", 0, << >>)
          /\ raised' = "KeyError"
          /\ UNCHANGED <<db, collection>>
     ELSE LET l2 == IF database \notin {d \in DbNames : server[d] # {}}
                    THEN logging_emit("WARNING", "database not exists", 1, <<database>>)
                    ELSE << >>
              l3 == logging_emit("INFO", "connected database", 1, <<database>>)
              l4 == IF coll \in server[database]
                    THEN logging_emit("WARNING", "collection not exists", 1, <<coll>>)
                    ELSE << >>
              l5 == logging_emit("INFO", "connected collection", 1, <<coll>>)
          IN /\ log' = l1 \o l2 \o l3 \o l4 \o l5
             /\ db' = database
             /\ collection' = coll
             /\ raised' = "none"
  /\ UNCHANGED <<server, docs, pre, calls, res, results, count, sorted, consumed, yielded, finds>>

InitCtor ==
  /\ server \in [DbNames -> SUBSET CollNames]
  /\ client = None /\ db = None /\ collection = None
  /\ docs = << >> /\ pre = << >>
  /\ op = [name |-> "idle"]
  /\ calls = << >> /\ log = << >> /\ raised = "none"
  /\ res = << >>
  /\ results = << >> /\ count = 0 /\ sorted = << >> /\ consumed = {} /\ yielded = << >>
  /\ finds = 0

NextCtor ==
  \E database \in DbNames \cup {None, ""}, coll \in CollNames \cup {None, ""} :
     MyMongodb_init(database, coll)

SpecCtor == InitCtor /\ [][NextCtor]_vars

\* ---------------------------------------------------------------- remove_duplicates
RECURSIVE dedup_loop(_, _)
dedup_loop(ori_data, acc) ==
  IF ori_data = << >> THEN acc
  ELSE dedup_loop(Tail(ori_data),
                  IF Head(ori_data) \notin Range(acc)
                  THEN Append(acc, Head(ori_data)) ELSE acc)

\* the same loop comparing each record with the last retained one only
RECURSIVE dedup_adjacent(_, _)
dedup_adjacent(ori_data, acc) ==
  IF ori_data = << >> THEN acc
  ELSE dedup_adjacent(Tail(ori_data),
                      IF acc = << >> \/ Head(ori_data) # acc[Len(acc)]
                      THEN Append(acc, Head(ori_data)) ELSE acc)

remove_duplicates_adjacent(ori_data) == dedup_adjacent(ori_data, << >>)

remove_duplicates(ori_data) == dedup_loop(ori_data, << >>)

CallRemoveDuplicates(ori_data) ==
  /\ op' = [name |-> "remove_duplicates", ori_data |-> ori_data]
  /\ res' = remove_duplicates(ori_data)
  /\ UNCHANGED <<server, client, db, collection, docs, pre, calls, log, raised,
                 results, count, sorted, consumed, yielded, finds>>

InitReady ==
  /\ server = [d \in DbNames |-> IF d = "local" THEN {"students"} ELSE {}]
  /\ client = "MongoClient" /\ db = "local" /\ collection = "students"
  /\ pre = << >>
  /\ op = [name |-> "idle"]
  /\ calls = << >> /\ log = << >> /\ raised = "none"
  /\ res = << >>
  /\ results = << >> /\ count = 0 /\ sorted = << >> /\ consumed = {} /\ yielded = << >>
  /\ finds = 0

InitDedup == InitReady /\ docs = << >>

\* One call per behaviour, on any list.
NextDedup ==
  /\ op.name = "idle"
  /\ \E ori_data \in SeqsUpTo(Records, MaxList) : CallRemoveDuplicates(ori_data)

SpecDedup == InitDedup /\ [][NextDedup]_vars

\* ---------------------------------------------------------------- filters
\* A filter {key: value} (optional = None) or {key: {optional: value}}.
Keys == {"id", "val"}
Operators == {"$gt", "$lt", "$ne"}
Filters == [key : Keys, optional : Operators \cup {None}, value : 1..MaxVal]

Matches(d, f) ==
  LET x == IF f.key = "id" THEN d.id ELSE d.val IN
  CASE f.optional = None  -> x = f.value
    [] f.optional = "$gt" -> x > f.value
    [] f.optional = "$lt" -> x < f.value
    [] f.optional = "$ne" -> x # f.value

Matching(ds, f) == SelectSeq(ds, LAMBDA d : Matches(d, f))

\* index of the first document of ds matching f, 0 when there is none
FirstMatch(ds, f) ==
  IF \E i \in DOMAIN ds : Matches(ds[i], f)
  THEN CHOOSE i \in DOMAIN ds : Matches(ds[i], f) /\ \A j \in 1..(i-1) : ~Matches(ds[j], f)
  ELSE 0

\* ---------------------------------------------------------------- driver writes
\* Collection.insert_one: a duplicate primary key is rejected.
insert_one(ds, document) ==
  IF document.id \in IdsOf(ds)
  THEN [docs |-> ds, raised |-> "DuplicateKeyError"]
  ELSE [docs |-> Append(ds, document), raised |-> "none"]

\* The server writes the documents one after the other; a rejected document
\* ends the batch when stop is set and is skipped otherwise.
RECURSIVE write_batch(_, _, _, _)
write_batch(ds, documents, stop, failed) ==
  IF documents = << >>
  THEN [docs |-> ds, raised |-> IF failed THEN "BulkWriteError" ELSE "none"]
  ELSE IF Head(documents).id \in IdsOf(ds)
       THEN IF stop THEN [docs |-> ds, raised |-> "BulkWriteError"]
            ELSE write_batch(ds, Tail(documents), stop, TRUE)
       ELSE write_batch(Append(ds, Head(documents)), Tail(documents), stop, failed)

\* Collection.insert_many: an empty list is refused by the driver; ordered
\* writes serially in the given order and aborts at the first error; otherwise
\* the server attempts every document, in an order of its own choosing.
\* The set of possible outcomes.
insert_many(ds, documents, ordered) ==
  IF documents = << >> THEN {[docs |-> ds, raised |-> "TypeError"]}
  ELSE IF ordered THEN {write_batch(ds, documents, TRUE, FALSE)}
  ELSE {write_batch(ds, [i \in DOMAIN documents |-> documents[p[i]]], FALSE, FALSE) :
          p \in Perms(Len(documents))}

delete_many(ds, f) ==
  [docs |-> SelectSeq(ds, LAMBDA d : ~Matches(d, f)),
   deleted_count |-> Len(Matching(ds, f))]

delete_one(ds, f) ==
  LET k == FirstMatch(ds, f) IN
  IF k = 0 THEN [docs |-> ds, deleted_count |-> 0]
  ELSE [docs |-> SubSeq(ds, 1, k - 1) \o SubSeq(ds, k + 1, Len(ds)), deleted_count |-> 1]

\* An update {'$set': {'val': v}}, written as v.
Updates == 1..MaxVal

update_many(ds, f, v) ==
  [docs |-> [i \in DOMAIN ds |-> IF Matches(ds[i], f) THEN [ds[i] EXCEPT !.val = v] ELSE ds[i]],
   matched_count |-> Len(Matching(ds, f)),
   modified_count |-> Cardinality({i \in DOMAIN ds : Matches(ds[i], f) /\ ds[i].val # v})]

update_one(ds, f, v) ==
  LET k == FirstMatch(ds, f) IN
  IF k = 0 THEN [docs |-> ds, matched_count |-> 0, modified_count |-> 0]
  ELSE [docs |-> [ds EXCEPT ![k].val = v],
        matched_count |-> 1,
        modified_count |-> IF ds[k].val # v THEN 1 ELSE 0]

\* ---------------------------------------------------------------- insert
\* the branch with the ordered flag left at the driver's default
insert_call_default_ordered(ds, insert_data, ordered) ==
  IF Len(insert_data) = 1
  THEN {[name |-> "insert_one", documents |-> insert_data, ordered |-> None,
         out |-> insert_one(ds, insert_data[1])]}
  ELSE {[name |-> "insert_many", documents |-> insert_data, ordered |-> ToString(TRUE),
         out |-> o] : o \in insert_many(ds, insert_data, TRUE)}

\* the branch without the single-record case
insert_call_always_many(ds, insert_data, ordered) ==
  {[name |-> "insert_many", documents |-> insert_data, ordered |-> ToString(ordered),
    out |-> o] : o \in insert_many(ds, insert_data, ordered)}

\* The driver call insert makes for the de-duplicated list, with its outcomes.
insert_call(ds, insert_data, ordered) ==
  IF Len(insert_data) = 1
  THEN {[name |-> "insert_one", documents |-> insert_data, ordered |-> None,
         out |-> insert_one(ds, insert_data[1])]}
  ELSE {[name |-> "insert_many", documents |-> insert_data, ordered |-> ToString(ordered),
         out |-> o] : o \in insert_many(ds, insert_data, ordered)}

insert(insert_data, ordered) ==
  \E c \in insert_call(docs, remove_duplicates(insert_data), ordered) :
    /\ op' = [name |-> "insert", insert_data |-> insert_data, ordered |-> ordered]
    /\ pre' = docs
    /\ calls' = <<[name |-> c.name, documents |-> c.documents, ordered |-> c.ordered]>>
    /\ docs' = c.out.docs
    /\ raised' = c.out.raised
    /\ log' = IF c.out.raised = "none"
              THEN logging_emit("INFO", "inserted", 0, << >>)
              ELSE << >>
    /\ UNCHANGED <<server, client, db, collection, res, results, count, sorted,
                   consumed, yielded, finds>>

\* ---------------------------------------------------------------- delete
ImpactTokens == {"all", "single", "one"}

\* delete with every token other than 'single' taken as 'all'
delete_else_all(filter, impact_data) ==
  LET r == IF impact_data = "single" THEN delete_one(docs, filter)
           ELSE delete_many(docs, filter)
  IN
  /\ op' = [name |-> "delete", filter |-> filter, impact_data |-> impact_data]
  /\ pre' = docs
  /\ calls' = <<[name |-> IF impact_data = "single" THEN "delete_one" ELSE "delete_many",
                 deleted_count |-> r.deleted_count]>>
  /\ docs' = r.docs
  /\ log' = logging_emit("INFO", "deleted", 1, <<r.deleted_count>>)
  /\ raised' = "none"
  /\ UNCHANGED <<server, client, db, collection, res, results, count, sorted,
                 consumed, yielded, finds>>

delete(filter, impact_data) ==
  \* results: << >> for None, <<r>> for the driver's result object
  LET results1 == CASE impact_data = "all" ->
                        <<[name |-> "delete_many", r |-> delete_many(docs, filter)]>>
                    [] impact_data = "single" ->
                        <<[name |-> "delete_one", r |-> delete_one(docs, filter)]>>
                    [] OTHER -> << >>
      l1 == IF impact_data \notin {"all", "single"}
            THEN logging_emit("ERROR", "impact_data incorrect, failed to delete", 0, << >>)
            ELSE << >>
  IN
  /\ op' = [name |-> "delete", filter |-> filter, impact_data |-> impact_data]
  /\ pre' = docs
  /\ calls' = [i \in DOMAIN results1 |->
                 [name |-> results1[i].name, deleted_count |-> results1[i].r.deleted_count]]
  /\ docs' = IF results1 # << >> THEN results1[1].r.docs ELSE docs
  /\ log' = l1 \o (IF results1 # << >>
                   THEN logging_emit("INFO", "deleted", 1, <<results1[1].r.deleted_count>>)
                   ELSE << >>)
  /\ raised' = "none"
  /\ UNCHANGED <<server, client, db, collection, res, results, count, sorted,
                 consumed, yielded, finds>>

\* ---------------------------------------------------------------- update
update(filter, upd, impact_data) ==
  LET results1 == CASE impact_data = "all" ->
                        <<[name |-> "update_many", r |-> update_many(docs, filter, upd)]>>
                    [] impact_data = "single" ->
                        <<[name |-> "update_one", r |-> update_one(docs, filter, upd)]>>
                    [] OTHER -> << >>
      l1 == IF impact_data \notin {"all", "single"}
            THEN logging_emit("ERROR", "impact_data incorrect, failed to update", 0, << >>)
            ELSE << >>
  IN
  /\ op' = [name |-> "update", filter |-> filter, update |-> upd,
            impact_data |-> impact_data]
  /\ pre' = docs
  /\ calls' = [i \in DOMAIN results1 |->
                 [name |-> results1[i].name,
                  matched_count |-> results1[i].r.matched_count,
                  modified_count |-> results1[i].r.modified_count]]
  /\ docs' = IF results1 # << >> THEN results1[1].r.docs ELSE docs
  /\ log' = l1 \o (IF results1 # << >>
                   THEN logging_emit("INFO", "matched and updated", 2,
                                     <<results1[1].r.matched_count>>)
                   ELSE << >>)
  /\ raised' = "none"
  /\ UNCHANGED <<server, client, db, collection, res, results, count, sorted,
                 consumed, yielded, finds>>

\* The collection starts as any collection earlier writes can have left, and a
\* behaviour is one call on it.
InitWrite == InitReady /\ docs \in Collections

NextWrite ==
  \/ \E insert_data \in SeqsUpTo(Records, MaxLen), ordered \in BOOLEAN :
        op.name = "idle" /\ insert(insert_data, ordered)
  \/ \E filter \in Filters, impact_data \in ImpactTokens :
        op.name = "idle" /\ delete(filter, impact_data)
  \/ \E filter \in Filters, upd \in Updates, impact_data \in ImpactTokens :
        op.name = "idle" /\ update(filter, upd, impact_data)

SpecWrite == InitWrite /\ [][NextWrite]_vars

\* ---------------------------------------------------------------- cursors
\* A cursor is lazy: it holds the query and runs it on the first iteration;
\* once iterated to the end it is spent and yields nothing more.
Field(d, k) == IF k = "id" THEN d.id ELSE d.val

\* a comes strictly before b in the order srt, a list of <<field, direction>>
RECURSIVE Precedes(_, _, _)
Precedes(a, b, srt) ==
  IF srt = << >> THEN FALSE
  ELSE LET x == Field(a, Head(srt)[1])
           y == Field(b, Head(srt)[1])
       IN IF x = y THEN Precedes(a, b, Tail(srt))
          ELSE IF Head(srt)[2] = 1 THEN x < y ELSE x > y

\* The orders in which the server may deliver the matching documents: the
\* natural order without a sort, otherwise any arrangement the sort allows
\* (documents equal under the sort come in an unspecified order).
Arrangements(matched, srt) ==
  IF srt = << >> THEN {matched}
  ELSE {s \in {[i \in DOMAIN matched |-> matched[p[i]]] : p \in Perms(Len(matched))} :
          \A i, j \in DOMAIN s : i < j => ~Precedes(s[j], s[i], srt)}

\* The server sorts, then skips, then limits; a limit of 0 is no limit.
Window(s, limit, skip) ==
  SubSeq(s, skip + 1, IF limit = 0 THEN Len(s) ELSE Min(skip + limit, Len(s)))

cursor_data(ds, c) ==
  {Window(s, c.limit, c.skip) : s \in Arrangements(Matching(ds, c.filter), c.sort)}

\* list(cursor) / for ... in cursor: the records delivered and the cursor after.
list_cursor(ds, c) ==
  IF c.spent THEN {[data |-> << >>, cursor |-> c]}
  ELSE {[data |-> s, cursor |-> [c EXCEPT !.spent = TRUE]] : s \in cursor_data(ds, c)}

\* Cursor.clone(): an unevaluated cursor with the same query.
clone(c) == [c EXCEPT !.spent = FALSE]

\* ---------------------------------------------------------------- find_data
find_data(key, value, optional, limit_num, skip_num) ==
  LET filter == IF ~Truthy(optional)
                THEN [key |-> key, optional |-> None, value |-> value]
                ELSE [key |-> key, optional |-> optional, value |-> value]
      cur == [filter |-> filter, limit |-> limit_num, skip |-> skip_num,
              sort |-> << >>, spent |-> FALSE]
  IN
  /\ finds < MaxFinds
  /\ finds' = finds + 1
  /\ \E o \in list_cursor(docs, cur) :
       /\ results' = <<o.cursor>>
       /\ count' = Len(o.data)
  /\ op' = [name |-> "find_data", key |-> key, value |-> value, optional |-> optional,
            limit_num |-> limit_num, skip_num |-> skip_num]
  /\ sorted' = << >>
  /\ consumed' = {}
  /\ yielded' = << >>
  /\ UNCHANGED <<server, client, db, collection, docs, pre, calls, log, raised, res>>

\* ---------------------------------------------------------------- sort_data
\* key is a field name, [str |-> name], or a list of pairs, [list |-> pairs].
SortKeys ==
  {[str |-> k] : k \in Keys} \cup
  {[list |-> <<<<"val", -1>>, <<"id", 1>>>>]}

sort_data(key, rule) ==
  /\ results # << >>
  /\ LET sorted_data == clone(results[1])
     IN sorted' = <<[sorted_data EXCEPT !.sort = IF "str" \in DOMAIN key
                                                 THEN <<<<key.str, rule>>>>
                                                 ELSE key.list]>>
  /\ op' = [name |-> "sort_data", key |-> key, rule |-> rule]
  /\ consumed' = consumed \ {"sorted"}
  /\ yielded' = << >>
  /\ UNCHANGED <<server, client, db, collection, docs, pre, calls, log, raised, res,
                 results, count, finds>>

\* ---------------------------------------------------------------- the caller
\* The caller iterates a cursor it was handed to the end.
iterate(target) ==
  LET held == IF target = "results" THEN results ELSE sorted IN
  /\ held # << >>
  /\ \E o \in list_cursor(docs, held[1]) :
       /\ yielded' = o.data
       /\ IF target = "results"
          THEN results' = <<o.cursor>> /\ UNCHANGED sorted
          ELSE sorted' = <<o.cursor>> /\ UNCHANGED results
  /\ op' = [name |-> "iterate", target |-> target, first |-> target \notin consumed]
  /\ consumed' = consumed \cup {target}
  /\ UNCHANGED <<server, client, db, collection, docs, pre, calls, log, raised, res,
                 count, finds>>

InitFind == InitReady /\ docs \in Collections

NextFind ==
  \/ \E key \in Keys, value \in 1..MaxVal, optional \in Operators \cup {None, ""},
        limit_num \in 0..MaxLimit, skip_num \in 0..MaxSkip :
        find_data(key, value, optional, limit_num, skip_num)
  \/ \E key \in SortKeys, rule \in {1, -1} : sort_data(key, rule)
  \/ \E target \in {"results", "sorted"} : iterate(target)

SpecFind == InitFind /\ [][NextFind]_vars

\* ================================================================ properties
ValidScope == {"single", "all"}

IsFirstIterationOfResults ==
  op.name = "iterate" /\ op.target = "results" /\ op.first

\* C1: the count find_data returns is the number of records the caller gets
\* when it then iterates the returned cursor.
C1_CountEqualsRecordsYielded ==
  IsFirstIterationOfResults => Len(yielded) = count

\* C2: after find_data and sort_data the cursor find_data returned is still
\* consumable: iterating it yields the records matching its query.
C2_OriginalConsumableAfterSort ==
  (IsFirstIterationOfResults /\ sorted # << >>) =>
     yielded \in cursor_data(docs, results[1])

\* C3: a successful construction obtains the collection handle and logs the
\* collection warning exactly when the collection is not listed by the database.
C3_CollectionWarningIffAbsent ==
  (op.name = "__init__" /\ raised = "none") =>
     /\ collection = op.collection
     /\ HasLine(log, "WARNING", "collection not exists")
          <=> op.collection \notin server[op.database]

\* C4: every update with scope 'single' or 'all' that returns without error
\* emits one informational line carrying the matched and the modified count.
C4_UpdateLogsMatchedAndModified ==
  (op.name = "update" /\ op.impact_data \in ValidScope /\ raised = "none") =>
     /\ Cardinality({i \in DOMAIN log : log[i].level = "INFO"}) = 1
     /\ \E i \in DOMAIN log :
          /\ log[i].level = "INFO"
          /\ log[i].args = <<calls[1].matched_count, calls[1].modified_count>>

\* C5: construction with a missing or empty database or collection name raises,
\* logs an error line and establishes or stores no connection, database or
\* collection handle.
C5_FailedConstructionLeavesNoHandle ==
  (op.name = "__init__" /\ (~Truthy(op.database) \/ ~Truthy(op.collection))) =>
     /\ raised = "KeyError"
     /\ HasLine(log, "ERROR", "no database or collection name")
     /\ client = None /\ db = None /\ collection = None

\* C6: delete and update with a scope token outside {'single','all'} issue no
\* driver call, leave the collection as it was, log an error line and raise
\* nothing.
C6_InvalidScopeIsLoggedNoOp ==
  (op.name \in {"delete", "update"} /\ op.impact_data \notin ValidScope) =>
     /\ calls = << >>
     /\ docs = pre
     /\ \E i \in DOMAIN log : log[i].level = "ERROR"
     /\ raised = "none"

C6_Witness ==
  /\ op.name = "delete"
  /\ op.impact_data \notin ValidScope
  /\ Matching(pre, op.filter) # << >>
  /\ docs = pre

\* position of the first occurrence of r in s
FirstIndex(s, r) == CHOOSE i \in DOMAIN s : s[i] = r /\ \A j \in 1..(i-1) : s[j] # r

\* C7: remove_duplicates returns each distinct input record exactly once, in
\* order of first appearance, and never more records than it was given.
C7_DedupKeepsFirstOccurrences ==
  op.name = "remove_duplicates" =>
     /\ Len(res) <= Len(op.ori_data)
     /\ Range(res) = Range(op.ori_data)
     /\ \A i, j \in DOMAIN res : i # j => res[i] # res[j]
     /\ \A i, j \in DOMAIN res :
          i < j => FirstIndex(op.ori_data, res[i]) < FirstIndex(op.ori_data, res[j])

C7_Witness ==
  /\ op.name = "remove_duplicates"
  /\ Len(op.ori_data) = 3
  /\ op.ori_data[1] = op.ori_data[3]
  /\ op.ori_data[1] # op.ori_data[2]
  /\ res = <<op.ori_data[1], op.ori_data[2]>>

\* the documents docs holds beyond those it held when the call began
Added == SubSeq(docs, Len(pre) + 1, Len(docs))

KeepsPre == Len(docs) >= Len(pre) /\ SubSeq(docs, 1, Len(pre)) = pre

\* record i of the list d is rejected when written in list order onto before
Violates(before, d, i) ==
  d[i].id \in IdsOf(before) \/ \E j \in 1..(i-1) : d[j].id = d[i].id

\* C8: an insert of several distinct records of which some violates the
\* primary-key constraint: ordered, it commits exactly the records before the
\* first violating one and raises; unordered, it commits every record that
\* violates nothing, lets no rejected record block another, and raises.
C8_OrderedFlagGovernsPartialInsert ==
  LET d == op.insert_data IN
  (/\ op.name = "insert"
   /\ Len(d) >= 2
   /\ \A i, j \in DOMAIN d : i # j => d[i] # d[j]
   /\ \E i \in DOMAIN d : Violates(pre, d, i)) =>
     /\ raised = "BulkWriteError"
     /\ KeepsPre
     /\ IF op.ordered
        THEN LET k == CHOOSE i \in DOMAIN d :
                        Violates(pre, d, i) /\ \A j \in 1..(i-1) : ~Violates(pre, d, j)
             IN Added = SubSeq(d, 1, k - 1)
        ELSE /\ Range(Added) \subseteq Range(d)
             /\ \A i \in DOMAIN d :
                  /\ d[i].id \in IdsOf(docs)
                  /\ (d[i].id \notin IdsOf(pre) /\ \A j \in DOMAIN d : j # i => d[j].id # d[i].id)
                       => d[i] \in Range(Added)

C8_Witness ==
  /\ op.name = "insert"
  /\ ~op.ordered
  /\ Len(op.insert_data) = 2
  /\ op.insert_data[1].id \in IdsOf(pre)
  /\ op.insert_data[2].id \notin IdsOf(pre)
  /\ Added = <<op.insert_data[2]>>
  /\ raised = "BulkWriteError"

\* the records of s at their first occurrence, in order
FirstOccurrences(s) ==
  LET keep == {i \in DOMAIN s : \A j \in 1..(i-1) : s[j] # s[i]}
  IN [k \in 1..Cardinality(keep) |->
        s[CHOOSE i \in keep : Cardinality({j \in keep : j <= i}) = k]]

\* C10: insert issues exactly one driver write, carrying the de-duplicated
\* records: insert_one when one record remains, otherwise insert_many with the
\* caller's ordered flag; unless the server rejects a record the collection
\* gains exactly the distinct input records, and a one-record input stores
\* that record through the single-record path.
C10_InsertIssuesOneDeduplicatedWrite ==
  op.name = "insert" =>
     LET d == FirstOccurrences(op.insert_data) IN
     /\ Len(calls) = 1
     /\ calls[1].documents = d
     /\ calls[1].name = IF Len(d) = 1 THEN "insert_one" ELSE "insert_many"
     /\ Len(d) # 1 => calls[1].ordered = ToString(op.ordered)
     /\ raised \notin {"DuplicateKeyError", "BulkWriteError"} =>
          /\ KeepsPre
          /\ Len(Added) = Len(d)
          /\ Range(Added) = Range(d)
     /\ (Len(op.insert_data) = 1 /\ raised = "none") =>
          /\ calls[1].name = "insert_one"
          /\ docs = Append(pre, op.insert_data[1])

C10_Witness ==
  /\ op.name = "insert"
  /\ Len(op.insert_data) = 2
  /\ op.insert_data[1] = op.insert_data[2]
  /\ calls[1].name = "insert_one"
  /\ raised = "none"
  /\ docs = Append(pre, op.insert_data[1])

\* C9: find_data applies skip before limit: the records it returns are those
\* at positions skip+1 .. min(skip+limit, n) of the n matching records, in
\* natural order.
C9_SkipBeforeLimit ==
  IsFirstIterationOfResults =>
     LET c == results[1]
         m == Matching(docs, c.filter)
     IN yielded = SubSeq(m, c.skip + 1, Min(c.skip + c.limit, Len(m)))

====
